---- MODULE Spec2Model ----
(***************************************************************************)
(* Model of src/main.rs: the hand-off of captured frames from the capture  *)
(* callback (CaptureStream::new closure) to Render2D::draw through the     *)
(* global SCREEN_TEXTURE : Arc<Mutex<Option<Frame>>>, together with the    *)
(* one-time setup task spawned by Render2D::new.                           *)
(*                                                                         *)
(* Threads of the program:                                                 *)
(*   - the setup task on the tokio runtime (main.rs:60-121),               *)
(*   - the capture library's callback invocations (main.rs:98-115),        *)
(*   - the render loop calling Render2D::draw (main.rs:151-455).           *)
(*                                                                         *)
(* Calls into the rendering engine whose arguments do not depend on the    *)
(* relay (line/point builders, RectangleDrawData::new, ViewBuilder) are    *)
(* taken to succeed; create_from_metal_texture(..).unwrap(), which is      *)
(* reached only when the relay holds a frame, may fail.                    *)
(***************************************************************************)
EXTENDS Naturals, Sequences, FiniteSets, TLC

\* ------------------------------------------------------------------ bounds

\* number of video frames the capture library delivers in a run
MaxFrames == 3
\* number of callback invocations the capture library may run concurrently
NumCallbackThreads == 2

\* the callback invocations that can be in progress at once
Threads == 1..NumCallbackThreads

\* ------------------------------------------------------------------- state

VARIABLES
    process,         \* "running" | "terminated"
    setupPc,         \* position of the setup task (main.rs:60-121)
    SCREEN_TEXTURE,  \* the Option<Frame> inside the mutex: <<>> is None, <<f>> is Some(f)
    mutex,           \* holder of SCREEN_TEXTURE's lock
    nextFrameId,     \* id of the next video frame the capture library delivers
    cbPc,            \* position of each callback invocation
    cbResult,        \* the `result` argument of each callback invocation
    cbFrameId,       \* the local `frame_id` of each callback invocation
    cbTexture,       \* the local `texture` of each callback invocation, <<>> before extraction
    drawPc,          \* position of the render thread inside draw
    drawHandle,      \* frame_texture.clone() taken under the lock, <<>> if none
    texture,         \* the local `texture` of draw
    rectangle_draw_data, \* the texture the rectangle draw data was built from
    views,           \* the ViewDrawResults built so far by the current draw
    returned,        \* the Vec<ViewDrawResult> of the last completed draw
    \* history variables (not program state)
    published,       \* frames in the order their locked replace completed
    readAt,          \* Len(published) when draw last took the lock
    drawSeen,        \* what draw's last as_ref() observed in the slot
    reads,           \* number of times the current draw locked and read the relay
    failed,          \* ids of the frames whose texture extraction failed
    released         \* frames whose handle the program has dropped

setupVars == <<setupPc>>
cbVars == <<nextFrameId, cbPc, cbResult, cbFrameId, cbTexture, failed>>
drawVars == <<drawPc, drawHandle, texture, rectangle_draw_data, views, returned,
              readAt, drawSeen, reads>>
vars == <<process, setupPc, SCREEN_TEXTURE, mutex, nextFrameId,
          cbPc, cbResult, cbFrameId, cbTexture, drawPc, drawHandle, texture,
          rectangle_draw_data, views, returned, published, readAt,
          drawSeen, reads, failed, released>>

\* ------------------------------------------------------------------ values

\* Option<T> as a sequence of length at most one
None == <<>>
Some(x) == <<x>>

\* the Metal texture of the Rgba plane of video frame k
MetalTexture(k) == [plane |-> "Rgba", frame |-> k]

\* struct Frame { frame_texture, frame_id }
Frame(frame_texture, frame_id) ==
    [frame_texture |-> frame_texture, frame_id |-> frame_id]

\* holders of the mutex
Unlocked == <<"unlocked">>
RenderThread == <<"draw">>
CallbackThread(t) == <<"callback", t>>

\* the textures draw can use as the rectangle's source
rerun_logo_texture == [kind |-> "logo"]
ScreenTexture(handle) == [kind |-> "screen", handle |-> handle]

\* the `result` values the capture library passes to the callback
NoResult == [kind |-> "none"]
VideoEvent(k) == [kind |-> "Ok(Video)", frame |-> k]
OtherResults == {[kind |-> "Ok(Idle)"], [kind |-> "Err"]}

\* -------------------------------------------------------------------- Init

\* a slot that starts out holding a default frame
InitialSlotHolding == Some(Frame(MetalTexture(0), 0))

\* Lazy::new(|| Arc::new(Mutex::new(None)))
InitialSlot == None

Init ==
    /\ process = "running"
    /\ setupPc = "test_access"
    /\ SCREEN_TEXTURE = InitialSlot
    /\ mutex = Unlocked
    /\ nextFrameId = 1
    /\ cbPc = [t \in Threads |-> "idle"]
    /\ cbResult = [t \in Threads |-> NoResult]
    /\ cbFrameId = [t \in Threads |-> 0]
    /\ cbTexture = [t \in Threads |-> None]
    /\ drawPc = "idle"
    /\ drawHandle = None
    /\ texture = rerun_logo_texture
    /\ rectangle_draw_data = rerun_logo_texture
    /\ views = <<>>
    /\ returned = <<>>
    /\ published = <<>>
    /\ readAt = 0
    /\ drawSeen = None
    /\ reads = 0
    /\ failed = {}
    /\ released = {}

\* -------------------------------------------------------------- setup task

\* A panic inside the spawned task (.expect / .unwrap on a failed step). What
\* it does to the process depends on the build profile, which is not in src/:
\* with panic=unwind (the default) the tokio runtime catches it and only the
\* task ends; with panic=abort the process ends.
TaskPanic ==
    /\ setupPc' = "panicked"
    /\ process' \in {"running", "terminated"}

SetupStep(from, to) ==
    /\ process = "running"
    /\ setupPc = from
    /\ \/ /\ setupPc' = to
          /\ process' = process
       \/ TaskPanic
    /\ UNCHANGED <<SCREEN_TEXTURE, mutex, published, released>>
    /\ UNCHANGED cbVars
    /\ UNCHANGED drawVars

\* CaptureStream::test_access(false): Some(token) skips the request
SetupTestAccess ==
    /\ process = "running"
    /\ setupPc = "test_access"
    /\ setupPc' \in {"request_access", "request_adapter"}
    /\ UNCHANGED <<process, SCREEN_TEXTURE, mutex, published, released>>
    /\ UNCHANGED cbVars
    /\ UNCHANGED drawVars

SetupRequestAccess == SetupStep("request_access", "request_adapter")
SetupRequestAdapter == SetupStep("request_adapter", "request_device")
SetupRequestDevice == SetupStep("request_device", "content")
SetupContent == SetupStep("content", "display")
SetupDisplay == SetupStep("display", "config")
SetupConfig == SetupStep("config", "stream_new")
SetupStreamNew == SetupStep("stream_new", "opened")

\* the capture stream delivers events only once CaptureStream::new returned it
StreamOpen == setupPc = "opened"

\* ------------------------------------------------------- capture callback

\* the capture library invokes the callback with the next video frame
CbDeliverVideo(t) ==
    /\ process = "running"
    /\ StreamOpen
    /\ cbPc[t] = "idle"
    /\ nextFrameId <= MaxFrames
    /\ cbResult' = [cbResult EXCEPT ![t] = VideoEvent(nextFrameId)]
    /\ nextFrameId' = nextFrameId + 1
    /\ cbPc' = [cbPc EXCEPT ![t] = "called"]
    /\ UNCHANGED <<process, SCREEN_TEXTURE, mutex, published, released,
                   cbFrameId, cbTexture, failed>>
    /\ UNCHANGED setupVars
    /\ UNCHANGED drawVars

\* the capture library invokes the callback with a non-video event or an error
CbDeliverOther(t) ==
    /\ process = "running"
    /\ StreamOpen
    /\ cbPc[t] = "idle"
    /\ \E r \in OtherResults : cbResult' = [cbResult EXCEPT ![t] = r]
    /\ cbPc' = [cbPc EXCEPT ![t] = "called"]
    /\ UNCHANGED <<process, SCREEN_TEXTURE, mutex, published, released,
                   nextFrameId, cbFrameId, cbTexture, failed>>
    /\ UNCHANGED setupVars
    /\ UNCHANGED drawVars

\* println!, `if let Ok(StreamEvent::Video(frame)) = result` matches,
\* `let frame_id = frame.frame_id()`
CbMatchVideo(t) ==
    /\ process = "running"
    /\ cbPc[t] = "called"
    /\ cbResult[t].kind = "Ok(Video)"
    /\ cbFrameId' = [cbFrameId EXCEPT ![t] = cbResult[t].frame]
    /\ cbPc' = [cbPc EXCEPT ![t] = "extract"]
    /\ UNCHANGED <<process, SCREEN_TEXTURE, mutex, published, released,
                   nextFrameId, cbResult, cbTexture, failed>>
    /\ UNCHANGED setupVars
    /\ UNCHANGED drawVars

\* println!, the `if let` does not match: the callback returns
CbIgnore(t) ==
    /\ process = "running"
    /\ cbPc[t] = "called"
    /\ cbResult[t].kind # "Ok(Video)"
    /\ cbResult' = [cbResult EXCEPT ![t] = NoResult]
    /\ cbPc' = [cbPc EXCEPT ![t] = "idle"]
    /\ UNCHANGED <<process, SCREEN_TEXTURE, mutex, published, released,
                   nextFrameId, cbFrameId, cbTexture, failed>>
    /\ UNCHANGED setupVars
    /\ UNCHANGED drawVars

\* frame.get_metal_texture(Rgba) returns Ok(texture)
CbExtractOk(t) ==
    /\ process = "running"
    /\ cbPc[t] = "extract"
    /\ cbTexture' = [cbTexture EXCEPT ![t] = Some(MetalTexture(cbResult[t].frame))]
    /\ cbPc' = [cbPc EXCEPT ![t] = "lock"]
    /\ UNCHANGED <<process, SCREEN_TEXTURE, mutex, published, released,
                   nextFrameId, cbResult, cbFrameId, failed>>
    /\ UNCHANGED setupVars
    /\ UNCHANGED drawVars

\* an Err arm that clears the slot
SlotClearedOnExtractErr(slot) == None

\* what the Err(e) arm does to the slot: it only prints
SlotAfterExtractErr(slot) == slot

\* frame.get_metal_texture(Rgba) returns Err(e): println!, the callback returns
CbExtractErr(t) ==
    /\ process = "running"
    /\ cbPc[t] = "extract"
    /\ failed' = failed \cup {cbFrameId[t]}
    /\ SCREEN_TEXTURE' = SlotAfterExtractErr(SCREEN_TEXTURE)
    /\ cbResult' = [cbResult EXCEPT ![t] = NoResult]
    /\ cbFrameId' = [cbFrameId EXCEPT ![t] = 0]
    /\ cbPc' = [cbPc EXCEPT ![t] = "idle"]
    /\ UNCHANGED <<process, mutex, published, released, nextFrameId, cbTexture>>
    /\ UNCHANGED setupVars
    /\ UNCHANGED drawVars

\* SCREEN_TEXTURE.lock().unwrap(): blocks until the mutex is free. The mutex is
\* never poisoned while the process runs: the only panic under the lock is
\* draw's, on the main thread, which ends the process.
CbLock(t) ==
    /\ process = "running"
    /\ cbPc[t] = "lock"
    /\ mutex = Unlocked
    /\ mutex' = CallbackThread(t)
    /\ cbPc' = [cbPc EXCEPT ![t] = "replace"]
    /\ UNCHANGED <<process, SCREEN_TEXTURE, published, released,
                   nextFrameId, cbResult, cbFrameId, cbTexture, failed>>
    /\ UNCHANGED setupVars
    /\ UNCHANGED drawVars

\* a frame whose id is taken from the stream's latest delivery instead of the
\* callback's own frame
CallbackFrameLatestId(t) == Frame(cbTexture[t][1], nextFrameId - 1)

\* Frame { frame_texture: texture, frame_id } built from the callback's locals
CallbackFrame(t) == Frame(cbTexture[t][1], cbFrameId[t])

\* Option::get_or_insert: a value already in the slot is kept
KeepFirst(slot, frame) == IF slot = None THEN Some(frame) ELSE slot

\* Option::replace: the slot holds the new value, whatever it held
Replace(slot, frame) == Some(frame)

\* an old value that is kept alive (mem::forget / ManuallyDrop) instead of dropped
ForgottenByReplace(slot) == {}

\* Option::replace returns the old Option<Frame>; the statement does not bind
\* it, so the temporary is dropped at the end of the statement and with it the
\* old frame's metal::Texture handle
DroppedByReplace(slot) == {slot[i] : i \in 1..Len(slot)}

\* .replace(Frame { .. }) under the lock; the guard is dropped at the end of
\* the statement and the callback returns
CbReplace(t) ==
    /\ process = "running"
    /\ cbPc[t] = "replace"
    /\ mutex = CallbackThread(t)
    /\ SCREEN_TEXTURE' = Replace(SCREEN_TEXTURE, CallbackFrame(t))
    /\ published' = Append(published, CallbackFrame(t))
    /\ released' = released \cup DroppedByReplace(SCREEN_TEXTURE)
    /\ mutex' = Unlocked
    /\ cbResult' = [cbResult EXCEPT ![t] = NoResult]
    /\ cbFrameId' = [cbFrameId EXCEPT ![t] = 0]
    /\ cbTexture' = [cbTexture EXCEPT ![t] = None]
    /\ cbPc' = [cbPc EXCEPT ![t] = "idle"]
    /\ UNCHANGED <<process, nextFrameId, failed>>
    /\ UNCHANGED setupVars
    /\ UNCHANGED drawVars

\* -------------------------------------------------------------------- draw

\* the render loop calls draw; the line and point draw data are built
DrawStart ==
    /\ process = "running"
    /\ drawPc = "idle"
    /\ drawPc' = "read"
    /\ reads' = 0
    /\ UNCHANGED <<process, SCREEN_TEXTURE, mutex, published, released,
                   drawHandle, texture, rectangle_draw_data, views, returned,
                   readAt, drawSeen>>
    /\ UNCHANGED setupVars
    /\ UNCHANGED cbVars

\* Option::take: the reader moves the frame out of the slot
SlotAfterTake(slot) == None

\* what Option::as_ref leaves in the slot: it borrows, the slot keeps its value
SlotAfterRead(slot) == slot

\* a reader that waits until a frame has been published
DrawLockReadyWhenFrame == mutex = Unlocked /\ SCREEN_TEXTURE # None

\* SCREEN_TEXTURE.lock().unwrap(): blocks until the mutex is free, and only
\* on the mutex
DrawLockReady == mutex = Unlocked

\* `if let Some(texture) = SCREEN_TEXTURE.lock().unwrap().as_ref()`: the lock is
\* taken and the slot inspected. Some: frame_texture.clone() is taken for
\* create_from_metal_texture. None: the else arm clones the logo texture.
\* The guard is a temporary of the `if let` scrutinee and lives to the end of
\* the whole if/else expression.
DrawLock ==
    /\ process = "running"
    /\ drawPc = "read"
    /\ DrawLockReady
    /\ mutex' = RenderThread
    /\ reads' = reads + 1
    /\ readAt' = Len(published)
    /\ drawSeen' = SCREEN_TEXTURE
    /\ SCREEN_TEXTURE' = SlotAfterRead(SCREEN_TEXTURE)
    /\ IF SCREEN_TEXTURE # None
       THEN /\ drawHandle' = Some(SCREEN_TEXTURE[1].frame_texture)
            /\ texture' = texture
            /\ drawPc' = "register"
       ELSE /\ drawHandle' = None
            /\ texture' = rerun_logo_texture
            /\ drawPc' = "unlock"
    /\ UNCHANGED <<process, published, released, rectangle_draw_data, views,
                   returned>>
    /\ UNCHANGED setupVars
    /\ UNCHANGED cbVars

\* re_ctx.texture_manager_2d.create_from_metal_texture(..) returns Ok: the
\* handle is registered with the texture manager, still under the lock
DrawRegister ==
    /\ process = "running"
    /\ drawPc = "register"
    /\ texture' = ScreenTexture(drawHandle[1])
    /\ drawPc' = "unlock"
    /\ UNCHANGED <<process, SCREEN_TEXTURE, mutex, published, released,
                   drawHandle, rectangle_draw_data, views, returned,
                   readAt, drawSeen, reads>>
    /\ UNCHANGED setupVars
    /\ UNCHANGED cbVars

\* create_from_metal_texture(..) returns Err: .unwrap() panics on the main
\* thread and the process ends
DrawRegisterPanic ==
    /\ process = "running"
    /\ drawPc = "register"
    /\ process' = "terminated"
    /\ drawPc' = "panicked"
    /\ UNCHANGED <<SCREEN_TEXTURE, mutex, published, released,
                   drawHandle, texture, rectangle_draw_data, views, returned, readAt, drawSeen, reads>>
    /\ UNCHANGED setupVars
    /\ UNCHANGED cbVars

\* end of the if/else expression: the MutexGuard temporary is dropped
DrawUnlock ==
    /\ process = "running"
    /\ drawPc = "unlock"
    /\ mutex = RenderThread
    /\ mutex' = Unlocked
    /\ drawPc' = "rect"
    /\ UNCHANGED <<process, SCREEN_TEXTURE, published, released,
                   drawHandle, texture, rectangle_draw_data, views, returned, readAt, drawSeen, reads>>
    /\ UNCHANGED setupVars
    /\ UNCHANGED cbVars

\* RectangleDrawData::new(.. ColormappedTexture::from_unorm_rgba(texture) ..)
DrawRect ==
    /\ process = "running"
    /\ drawPc = "rect"
    /\ rectangle_draw_data' = texture
    /\ drawPc' = "view2d"
    /\ UNCHANGED <<process, SCREEN_TEXTURE, mutex, published, released,
                   drawHandle, texture, views, returned,
                   readAt, drawSeen, reads>>
    /\ UNCHANGED setupVars
    /\ UNCHANGED cbVars

\* the rectangle the 2D view queues: rectangle_draw_data.clone()
View2DRectangle == rectangle_draw_data

\* the 2D view: queue_draw(rectangle_draw_data.clone()), draw
DrawView2D ==
    /\ process = "running"
    /\ drawPc = "view2d"
    /\ views' = Append(views, [name |-> "2D", rectangle |-> View2DRectangle])
    /\ drawPc' = "view3d"
    /\ UNCHANGED <<process, SCREEN_TEXTURE, mutex, published, released,
                   drawHandle, texture, rectangle_draw_data, returned,
                   readAt, drawSeen, reads>>
    /\ UNCHANGED setupVars
    /\ UNCHANGED cbVars

\* a 3D view that builds its rectangle from a second look at the slot
View3DRectangleReread ==
    IF SCREEN_TEXTURE = None
    THEN rerun_logo_texture
    ELSE ScreenTexture(SCREEN_TEXTURE[1].frame_texture)

\* the rectangle the 3D view queues: rectangle_draw_data, moved
View3DRectangle == rectangle_draw_data

\* the 3D view: queue_draw(rectangle_draw_data), draw
DrawView3D ==
    /\ process = "running"
    /\ drawPc = "view3d"
    /\ views' = Append(views, [name |-> "3D", rectangle |-> View3DRectangle])
    /\ drawPc' = "return"
    /\ UNCHANGED <<process, SCREEN_TEXTURE, mutex, published, released,
                   drawHandle, texture, rectangle_draw_data, returned,
                   readAt, drawSeen, reads>>
    /\ UNCHANGED setupVars
    /\ UNCHANGED cbVars

\* the vec![..] of the two view results is returned to the render loop
DrawReturn ==
    /\ process = "running"
    /\ drawPc = "return"
    /\ returned' = views
    /\ drawPc' = "idle"
    /\ drawHandle' = None
    /\ texture' = rerun_logo_texture
    /\ rectangle_draw_data' = rerun_logo_texture
    /\ views' = <<>>
    /\ UNCHANGED <<process, SCREEN_TEXTURE, mutex, published, released,
                   readAt, drawSeen, reads>>
    /\ UNCHANGED setupVars
    /\ UNCHANGED cbVars

\* -------------------------------------------------------------------- Next

Callback(t) ==
    \/ CbDeliverVideo(t)
    \/ CbDeliverOther(t)
    \/ CbMatchVideo(t)
    \/ CbIgnore(t)
    \/ CbExtractOk(t)
    \/ CbExtractErr(t)
    \/ CbLock(t)
    \/ CbReplace(t)

Setup ==
    \/ SetupTestAccess
    \/ SetupRequestAccess
    \/ SetupRequestAdapter
    \/ SetupRequestDevice
    \/ SetupContent
    \/ SetupDisplay
    \/ SetupConfig
    \/ SetupStreamNew

Draw ==
    \/ DrawStart
    \/ DrawLock
    \/ DrawRegister
    \/ DrawRegisterPanic
    \/ DrawUnlock
    \/ DrawRect
    \/ DrawView2D
    \/ DrawView3D
    \/ DrawReturn

Next ==
    \/ Setup
    \/ \E t \in Threads : Callback(t)
    \/ Draw

Spec == Init /\ [][Next]_vars

\* ------------------------------------------------------------------ claims

\* the slot content after the first n completed publishes
LastOf(n) == IF n = 0 THEN None ELSE Some(published[n])

\* the texture a read yields as the rectangle's source
TextureOfRead(seen) ==
    IF seen = None THEN rerun_logo_texture ELSE ScreenTexture(seen[1].frame_texture)

\* the current draw has taken the lock and read the slot
HasRead == reads > 0 /\ drawPc \in {"register", "unlock", "rect", "view2d", "view3d", "return"}

\* C1: last write wins. The slot always holds the frame of the publish whose
\* locked replace completed last, and a read returns the frame of the publish
\* that completed last before the read took the lock (none if there was none);
\* earlier frames are not kept anywhere.
C1_LastWriteWins ==
    /\ SCREEN_TEXTURE = LastOf(Len(published))
    /\ (reads > 0 \/ returned # <<>>) =>
          /\ readAt <= Len(published)
          /\ drawSeen = LastOf(readAt)
          /\ (HasRead /\ drawSeen # None) =>
                drawHandle = Some(published[readAt].frame_texture)

\* C1 witness: the first read of the run happens after three publishes that no
\* read separated, completed out of frame-id order, and it returned the last
C1_Witness ==
    /\ returned = <<>>
    /\ drawPc = "register"
    /\ readAt = 3
    /\ published[1].frame_id > published[3].frame_id
    /\ drawHandle = Some(published[3].frame_texture)

\* C2: the relay is empty until a publish completes, and a draw that reads it
\* before any publish completed sees None, is never in the registration arm,
\* never panics, and carries the logo texture into the rectangle and into both
\* views; its read needs nothing but the mutex.
C2_EmptyBeforeFirstPublish ==
    /\ published = <<>> => SCREEN_TEXTURE = None
    /\ (reads > 0 /\ readAt = 0) =>
          /\ drawSeen = None
          /\ drawPc \notin {"register", "panicked"}
          /\ drawPc \in {"unlock", "rect"} => texture = rerun_logo_texture
          /\ drawPc \in {"view2d", "view3d", "return"} =>
                rectangle_draw_data = rerun_logo_texture
          /\ \A i \in 1..Len(views) : views[i].rectangle = rerun_logo_texture
          /\ drawPc = "return" => Len(views) = 2
    /\ (process = "running" /\ drawPc = "read" /\ published = <<>> /\ mutex = Unlocked)
          => ENABLED DrawLock

\* C2 witness: a draw that read before any publish is about to return two views
\* of the logo
C2_Witness ==
    /\ drawPc = "return"
    /\ reads = 1
    /\ readAt = 0
    /\ published = <<>>
    /\ Len(views) = 2
    /\ views[1].rectangle = rerun_logo_texture
    /\ views[2].rectangle = rerun_logo_texture

\* a frame whose texture and id come from one delivered frame whose extraction
\* succeeded
WholeFrame(f) ==
    /\ f.frame_id \in 1..(nextFrameId - 1)
    /\ f.frame_id \notin failed
    /\ f.frame_texture = MetalTexture(f.frame_id)

\* C3: with callbacks publishing concurrently, the slot and every read hold the
\* texture and the id of one and the same delivered frame, and once every
\* callback has returned the slot holds exactly one of the published frames.
C3_NoPartialState ==
    /\ SCREEN_TEXTURE # None => WholeFrame(SCREEN_TEXTURE[1])
    /\ drawSeen # None => WholeFrame(drawSeen[1])
    /\ drawHandle # None => \E k \in 1..(nextFrameId - 1) : drawHandle[1] = MetalTexture(k)
    /\ \A i \in 1..Len(published) : WholeFrame(published[i])
    /\ ((\A t \in Threads : cbPc[t] = "idle") /\ published # <<>>) =>
          /\ Len(SCREEN_TEXTURE) = 1
          /\ \E i \in 1..Len(published) : SCREEN_TEXTURE[1] = published[i]

\* C3 witness: two callbacks held distinct frames at once (the later frame was
\* published first), both have returned, and a read saw the result
C3_Witness ==
    /\ \A t \in Threads : cbPc[t] = "idle"
    /\ Len(published) = 2
    /\ published[1].frame_id > published[2].frame_id
    /\ reads > 0
    /\ drawSeen = SCREEN_TEXTURE
    /\ SCREEN_TEXTURE # None

\* callback t returns without publishing: a failed extraction, a non-video
\* event or an error
ReturnsWithoutPublish(t) ==
    /\ cbPc[t] \in {"called", "extract"}
    /\ cbPc'[t] = "idle"

\* C4: a callback that returns on a failed extraction (or on a non-video event
\* or an error) leaves the slot, the lock, the stream and the process as they
\* were; afterwards the stream still delivers, and an extracted frame can still
\* take the lock and be published.
C4_PerFrameErrorIsolation ==
    /\ [][\A t \in Threads : ReturnsWithoutPublish(t) =>
              /\ SCREEN_TEXTURE' = SCREEN_TEXTURE
              /\ published' = published
              /\ mutex' = mutex
              /\ process' = process
              /\ setupPc' = setupPc]_vars
    /\ [](\A t \in Threads : (failed # {} /\ process = "running") =>
              /\ StreamOpen
              /\ (cbPc[t] = "idle" /\ nextFrameId <= MaxFrames) => ENABLED CbDeliverVideo(t)
              /\ cbPc[t] = "extract" => ENABLED CbExtractOk(t)
              /\ (cbPc[t] = "lock" /\ mutex = Unlocked) => ENABLED CbLock(t)
              /\ cbPc[t] = "replace" => ENABLED CbReplace(t))

\* C4 witness: frame k failed while the slot held frame k-1, and frame k+1 was
\* published next and is in the slot
C4_Witness ==
    \E k \in failed : \E i \in 1..Len(published) :
        /\ i + 1 = Len(published)
        /\ published[i].frame_id + 1 = k
        /\ published[i + 1].frame_id = k + 1
        /\ SCREEN_TEXTURE = Some(published[i + 1])

\* draw takes the lock and reads the slot in this step
ReadStep == drawPc = "read" /\ drawPc' # "read"

\* C5: no step of draw changes the slot, and a read that follows an earlier
\* read with no publish completed in between returns what the earlier one did.
C5_ReadCadenceIndependence ==
    /\ [][drawPc' # drawPc => (SCREEN_TEXTURE' = SCREEN_TEXTURE /\ published' = published)]_vars
    /\ [][(ReadStep /\ returned # <<>> /\ readAt = Len(published)) =>
              drawSeen' = drawSeen]_vars

\* C5 witness: a second read with no publish since the first, both of the one
\* published frame, which is still in the slot
C5_Witness ==
    /\ returned # <<>>
    /\ Len(published) = 1
    /\ returned[1].rectangle = ScreenTexture(published[1].frame_texture)
    /\ reads = 1
    /\ drawPc = "register"
    /\ drawHandle = Some(published[1].frame_texture)
    /\ SCREEN_TEXTURE = Some(published[1])

\* callback t completes its locked replace in this step
PublishStep(t) ==
    /\ cbPc[t] = "replace"
    /\ cbPc'[t] = "idle"
    /\ mutex = CallbackThread(t)
    /\ SCREEN_TEXTURE' = Some(CallbackFrame(t))

\* C6: the slot holds at most one frame, it changes only in the replace step of
\* a callback, and once it holds a frame no step empties it.
C6_OneDirectionalSlot ==
    /\ [](Len(SCREEN_TEXTURE) <= 1)
    /\ [][SCREEN_TEXTURE # None => SCREEN_TEXTURE' # None]_vars
    /\ [][SCREEN_TEXTURE' # SCREEN_TEXTURE => \E t \in Threads : PublishStep(t)]_vars

\* C6 witness: the slot went empty -> holding -> holding, and still holds a
\* frame after a completed read and a failed extraction
C6_Witness ==
    /\ Len(published) >= 2
    /\ failed # {}
    /\ returned # <<>>
    /\ readAt >= 1
    /\ Len(SCREEN_TEXTURE) = 1

\* C7: whenever a step of the setup task has failed, the process has
\* terminated (and with it the render loop).
C7_FatalSetupErrorsTerminate ==
    setupPc = "panicked" => process = "terminated"

\* C8: draw registers the texture with the texture manager only when it does
\* not hold the relay lock: the lock covers the handle clone alone.
C8_CriticalSectionLimitedToSwap ==
    [][(drawPc = "register" /\ drawPc' = "unlock") => mutex # RenderThread]_vars

\* the order of the setup task's steps
SetupOrder ==
    {<<"test_access", "request_access">>, <<"test_access", "request_adapter">>,
     <<"request_access", "request_adapter">>, <<"request_adapter", "request_device">>,
     <<"request_device", "content">>, <<"content", "display">>,
     <<"display", "config">>, <<"config", "stream_new">>,
     <<"stream_new", "opened">>}

\* C9: setup advances permission -> adapter -> device -> content enumeration
\* -> stream open (or stops at the failed step); until the stream is open no
\* callback runs and nothing is published; a draw that reads the relay while
\* setup has not opened the stream never finds the lock taken, sees None and
\* takes the logo, and every step of a draw in progress is enabled whatever
\* the position of the setup task.
C9_RenderIndependentOfSetup ==
    /\ [][setupPc' # setupPc =>
              (<<setupPc, setupPc'>> \in SetupOrder \/ setupPc' = "panicked")]_vars
    /\ [](setupPc # "opened" =>
              /\ published = <<>>
              /\ SCREEN_TEXTURE = None
              /\ \A t \in Threads : cbPc[t] = "idle"
              /\ (process = "running" /\ drawPc = "read") => ENABLED DrawLock
              /\ (process = "running" /\ drawPc \notin {"idle", "read"}) => ENABLED Draw
              /\ HasRead => (drawSeen = None /\ drawPc # "register"))
    /\ [][(ReadStep /\ setupPc # "opened") =>
              (drawSeen' = None /\ texture' = rerun_logo_texture /\ drawPc' = "unlock")]_vars

\* C9 witness: a draw read the relay while setup was suspended at the adapter
\* request and is about to return two views of the logo
C9_Witness ==
    /\ setupPc = "request_adapter"
    /\ drawPc = "return"
    /\ reads = 1
    /\ drawSeen = None
    /\ Len(views) = 2
    /\ views[2].rectangle = rerun_logo_texture

\* C10: a draw that is about to return has locked and read the relay exactly
\* once and built exactly two views, 2D then 3D, whose rectangles both use the
\* texture of that one read; the returned vector is those two views.
C10_OneReadPerDraw ==
    /\ drawPc \in {"register", "unlock", "rect", "view2d", "view3d", "return"} => reads = 1
    /\ drawPc = "return" =>
          /\ Len(views) = 2
          /\ views[1].name = "2D"
          /\ views[2].name = "3D"
          /\ views[1].rectangle = TextureOfRead(drawSeen)
          /\ views[2].rectangle = TextureOfRead(drawSeen)
    /\ returned # <<>> =>
          /\ Len(returned) = 2
          /\ returned[1].name = "2D"
          /\ returned[2].name = "3D"
          /\ returned[1].rectangle = returned[2].rectangle

\* C10 witness: a publish completed after the draw's read and before the 3D
\* view was built, and both views still use the texture that was read
C10_Witness ==
    /\ drawPc = "view3d"
    /\ Len(published) > readAt
    /\ SCREEN_TEXTURE # drawSeen
    /\ drawSeen # None
    /\ views[1].rectangle = TextureOfRead(drawSeen)
    /\ View3DRectangle = TextureOfRead(drawSeen)

\* the published frames, and those whose handle has not been dropped
PublishedFrames == {published[i] : i \in 1..Len(published)}
LivePublished == PublishedFrames \ released

\* C11 as stated: no published frame is ever released, so the live published
\* handles are as many as the completed publishes.
C11_ReplacedFramesRetained ==
    /\ released = {}
    /\ Cardinality(LivePublished) = Len(published)

\* C11 amended: a frame that a later publish replaces is released in that
\* publish (the Option returned by replace is dropped at the end of the
\* statement); the only published frame still live is the one in the slot, so
\* the live published handles number at most one however many publishes
\* completed.
C11_ReplacedFramesReleased ==
    /\ LivePublished = {SCREEN_TEXTURE[i] : i \in 1..Len(SCREEN_TEXTURE)}
    /\ released = {published[i] : i \in 1..(Len(published) - 1)}
    /\ Cardinality(LivePublished) <= 1
    /\ published # <<>> => Cardinality(LivePublished) = 1

\* C11 witness: three publishes completed, the two replaced frames have been
\* released and only the frame in the slot is live
C11_Witness ==
    /\ Len(published) = 3
    /\ Cardinality(released) = 2
    /\ LivePublished = {SCREEN_TEXTURE[1]}
====
